---------------------------- MODULE Spec2Model ----------------------------
(***************************************************************************)
(* A model of k8s_inspector.py: the per-kind issue classifiers, the        *)
(* aggregation and report ordering, the manifest validator with its two    *)
(* branches, and the apply gate of the CLI driver.                         *)
(*                                                                         *)
(* Text that the program compares or searches (issue titles, object names, *)
(* the manifest's metadata strings) is a sequence of code points, so that  *)
(* Python's string order and substring test are computed, not assumed.     *)
(* Text that is only carried along is a TLA+ string.                       *)
(***************************************************************************)
EXTENDS Integers, Sequences, FiniteSets

VARIABLES
    pc,            \* position of main(): which call comes next
    args,          \* the parsed command line (namespace, manifest, apply, no_scan)
    cluster,       \* what the API server answers to each list call
    since_minutes, \* collect_events' recency window
    now,           \* the wall clock read by collect_events
    file,          \* the manifest file as yaml.safe_load_all sees it
    all_issues,    \* scan_cluster's accumulator, then main's `issues`
    printed,       \* what pretty_print_issues rendered
    ok,            \* main's ok / ok2 / ok_apply, by call
    out,           \* the text returned with the latest verdict
    trace,         \* calls made and external commands run, in order
    log,           \* main's own messages, in order
    fault          \* the exception that left main uncaught, if any

vars == <<pc, args, cluster, since_minutes, now, file, all_issues, printed,
          ok, out, trace, log, fault>>

-----------------------------------------------------------------------------
(* Python values *)

\* Python's None where the other values are records.
None == [none |-> TRUE]

\* An ApiException raised by a list call.
ApiFault == [fault |-> "ApiException"]

\* str.__lt__: code point order, a proper prefix is smaller.
StrLess(a, b) ==
    \E k \in 1..(Len(a) + 1) :
        /\ \A j \in 1..(k - 1) : j <= Len(b) /\ a[j] = b[j]
        /\ \/ k = Len(a) + 1 /\ Len(b) >= k
           \/ k <= Len(a) /\ k <= Len(b) /\ a[k] < b[k]

\* `needle in haystack` for two str values.
StrContains(needle, haystack) ==
    \E s \in 0..(Len(haystack) - Len(needle)) :
        \A j \in 1..Len(needle) : haystack[s + j] = needle[j]

RECURSIVE Flatten(_)
\* The concatenation of a sequence of sequences.
Flatten(ss) ==
    IF ss = <<>> THEN <<>> ELSE Head(ss) \o Flatten(Tail(ss))

-----------------------------------------------------------------------------
(* The title literals of the issue rules *)

\* "Failed to list nodes"
TitleFailedNodes ==
    <<70, 97, 105, 108, 101, 100, 32, 116, 111, 32, 108, 105, 115, 116, 32,
      110, 111, 100, 101, 115>>
\* "Node NotReady: "
TitleNodeNotReady ==
    <<78, 111, 100, 101, 32, 78, 111, 116, 82, 101, 97, 100, 121, 58, 32>>
\* "Node Cordoned (unschedulable): "
TitleNodeCordoned ==
    <<78, 111, 100, 101, 32, 67, 111, 114, 100, 111, 110, 101, 100, 32, 40,
      117, 110, 115, 99, 104, 101, 100, 117, 108, 97, 98, 108, 101, 41, 58, 32>>
\* "Node pressure "
TitleNodePressure ==
    <<78, 111, 100, 101, 32, 112, 114, 101, 115, 115, 117, 114, 101, 32>>
\* "Pod Pending: "
TitlePodPending ==
    <<80, 111, 100, 32, 80, 101, 110, 100, 105, 110, 103, 58, 32>>
\* "Container CrashLoopBackOff/Error: "
TitleCrashLoop ==
    <<67, 111, 110, 116, 97, 105, 110, 101, 114, 32, 67, 114, 97, 115, 104,
      76, 111, 111, 112, 66, 97, 99, 107, 79, 102, 102, 47, 69, 114, 114,
      111, 114, 58, 32>>
\* "Image pull problem: "
TitleImagePull ==
    <<73, 109, 97, 103, 101, 32, 112, 117, 108, 108, 32, 112, 114, 111, 98,
      108, 101, 109, 58, 32>>
\* "Container config error: "
TitleConfigError ==
    <<67, 111, 110, 116, 97, 105, 110, 101, 114, 32, 99, 111, 110, 102, 105,
      103, 32, 101, 114, 114, 111, 114, 58, 32>>
\* "OOMKilled / terminated container: "
TitleOOMKilled ==
    <<79, 79, 77, 75, 105, 108, 108, 101, 100, 32, 47, 32, 116, 101, 114,
      109, 105, 110, 97, 116, 101, 100, 32, 99, 111, 110, 116, 97, 105, 110,
      101, 114, 58, 32>>
\* "High restart count: "
TitleHighRestart ==
    <<72, 105, 103, 104, 32, 114, 101, 115, 116, 97, 114, 116, 32, 99, 111,
      117, 110, 116, 58, 32>>
\* "Failed to list deployments"
TitleFailedDeployments ==
    <<70, 97, 105, 108, 101, 100, 32, 116, 111, 32, 108, 105, 115, 116, 32,
      100, 101, 112, 108, 111, 121, 109, 101, 110, 116, 115>>
\* "Replica mismatch: "
TitleReplicaMismatch ==
    <<82, 101, 112, 108, 105, 99, 97, 32, 109, 105, 115, 109, 97, 116, 99,
      104, 58, 32>>
\* "Deployment not progressing: "
TitleNotProgressing ==
    <<68, 101, 112, 108, 111, 121, 109, 101, 110, 116, 32, 110, 111, 116, 32,
      112, 114, 111, 103, 114, 101, 115, 115, 105, 110, 103, 58, 32>>
\* "Failed to list PVCs"
TitleFailedPVCs ==
    <<70, 97, 105, 108, 101, 100, 32, 116, 111, 32, 108, 105, 115, 116, 32,
      80, 86, 67, 115>>
\* "PVC not Bound: "
TitlePVCNotBound ==
    <<80, 86, 67, 32, 110, 111, 116, 32, 66, 111, 117, 110, 100, 58, 32>>
\* "Failed to list events"
TitleFailedEvents ==
    <<70, 97, 105, 108, 101, 100, 32, 116, 111, 32, 108, 105, 115, 116, 32,
      101, 118, 101, 110, 116, 115>>
\* "Event: "
TitleEvent ==
    <<69, 118, 101, 110, 116, 58, 32>>

\* The pressure condition types, in the order check_nodes visits them, each
\* with its text ("DiskPressure", "MemoryPressure", "PIDPressure").
PressureTypes ==
    << [type |-> "DiskPressure",
        text |-> <<68, 105, 115, 107, 80, 114, 101, 115, 115, 117, 114, 101>>],
       [type |-> "MemoryPressure",
        text |-> <<77, 101, 109, 111, 114, 121, 80, 114, 101, 115, 115, 117,
                   114, 101>>],
       [type |-> "PIDPressure",
        text |-> <<80, 73, 68, 80, 114, 101, 115, 115, 117, 114, 101>>] >>

\* The separators of the f-strings: "/", ":", ": ", " ", " - ".
Slash == <<47>>
Colon == <<58>>
ColonSpace == <<58, 32>>
Space == <<32>>
Dash == <<32, 45, 32>>

\* safe_name's "{namespace}/{name}", as the pod, deployment and claim titles
\* spell it.
NsName(ns, name) == ns \o Slash \o name

\* The suggestion every listing failure carries.
RbacSuggestion == [text |-> "Check RBAC and connectivity"]

\* The single issue a classifier returns for a failed list call.
ListFailure(title) ==
    << [severity |-> "error", title |-> title,
        detail |-> [error |-> "ApiException"], suggestion |-> RbacSuggestion] >>

-----------------------------------------------------------------------------
(* Checks & analysis: one classifier per resource kind.  Each takes what the *)
(* list call answered: ApiFault, or [items |-> the objects].                 *)

\* A function that returned `v`, and one that raised `e`.
Return(v) == [raised |-> "", value |-> v]
Raise(e) == [raised |-> e]

\* {c.type: c for c in conditions}.get(type): the last condition of that type.
CondOf(conditions, type) ==
    LET idx == {i \in 1..Len(conditions) : conditions[i].type = type}
    IN  IF idx = {} THEN None
        ELSE conditions[CHOOSE i \in idx : \A j \in idx : j <= i]

\* The body of check_nodes' loop for one node.
NodeIssues(n) ==
    LET ready == CondOf(n.conditions, "Ready")
        notReady ==
            IF ready = None \/ ready.status # "True"
            THEN << [severity |-> "warning",
                     title |-> TitleNodeNotReady \o n.name,
                     detail |-> [Ready |-> IF ready = None THEN "Unknown"
                                           ELSE ready.status,
                                 lastHeartbeat |-> IF ready = None THEN "unknown"
                                                   ELSE ready.last_heartbeat_time],
                     suggestion |-> [text |-> "Check node kubelet, disk pressure, network. Run: kubectl describe node {name} and check kubelet logs on the node."]] >>
            ELSE <<>>
        cordoned ==
            IF n.unschedulable
            THEN << [severity |-> "info",
                     title |-> TitleNodeCordoned \o n.name,
                     detail |-> [text |-> "Node.spec.unschedulable is true"],
                     suggestion |-> [text |-> "If maintenance finished, uncordon: kubectl uncordon ",
                                     name |-> n.name]] >>
            ELSE <<>>
        pressure(t) ==
            LET c == CondOf(n.conditions, t.type)
            IN  IF c # None /\ c.status = "True"
                THEN << [severity |-> "warning",
                         title |-> TitleNodePressure \o t.text \o ColonSpace \o n.name,
                         detail |-> [isTrue |-> t.type,
                                     lastTransition |-> c.last_transition_time],
                         suggestion |-> [text |-> "Investigate resource usage on node, evictions, and taints."]] >>
                ELSE <<>>
    IN  notReady \o cordoned
          \o Flatten([i \in 1..Len(PressureTypes) |-> pressure(PressureTypes[i])])

\* check_nodes(v1)
check_nodes(listing) ==
    IF listing = ApiFault THEN ListFailure(TitleFailedNodes)
    ELSE Flatten([i \in 1..Len(listing.items) |-> NodeIssues(listing.items[i])])

\* The waiting-reason branch of analyze_pods for one container status.
WaitingIssues(p, cs) ==
    IF cs.waiting = None THEN <<>>
    ELSE LET reason == cs.waiting.reason
             detail == cs.waiting.message
             where == NsName(p.namespace, p.name) \o Colon \o cs.name
         IN  IF reason \in {"CrashLoopBackOff", "Error"}
             THEN << [severity |-> "warning",
                      title |-> TitleCrashLoop \o where,
                      detail |-> [Reason |-> reason, Message |-> detail],
                      suggestion |-> [text |-> "Inspect logs: kubectl logs -n {ns} {name} -c {cname} --previous\nCommon fixes: fix app exception, increase readinessTimeout, check env/config, use image with correct tag."]] >>
             ELSE IF reason \in {"ImagePullBackOff", "ErrImagePull", "RegistryUnavailable"}
             THEN << [severity |-> "warning",
                      title |-> TitleImagePull \o where,
                      detail |-> [Reason |-> reason, Message |-> detail],
                      suggestion |-> [text |-> "Check image name/tag, registry secret, imagePullSecrets, network. Try docker pull locally or check registry auth."]] >>
             ELSE IF reason = "CreateContainerConfigError"
             THEN << [severity |-> "warning",
                      title |-> TitleConfigError \o where,
                      detail |-> [text |-> detail],
                      suggestion |-> [text |-> "Likely bad command/args/env/volumeMounts. kubectl describe pod and check container spec and mounted volumes."]] >>
             ELSE <<>>

\* The last-terminated branch: reason OOMKilled, or (signal or 0) == 9.
TerminatedIssues(p, cs) ==
    IF cs.terminated = None THEN <<>>
    ELSE LET term == cs.terminated
         IN  IF term.reason = "OOMKilled" \/ term.signal = 9
             THEN << [severity |-> "warning",
                      title |-> TitleOOMKilled \o NsName(p.namespace, p.name)
                                  \o Colon \o cs.name,
                      detail |-> [ExitCode |-> term.exit_code, reason |-> term.reason,
                                  finish |-> term.finished_at],
                      suggestion |-> [text |-> "Increase memory requests/limits, check for memory leaks, review recent changes, examine logs prior to termination."]] >>
             ELSE <<>>

\* The restart-count branch: restart_count and restart_count > 5.
RestartIssues(p, cs) ==
    IF cs.restart_count # 0 /\ cs.restart_count > 5
    THEN << [severity |-> "warning",
             title |-> TitleHighRestart \o NsName(p.namespace, p.name)
                         \o Colon \o cs.name,
             detail |-> [Restarts |-> cs.restart_count],
             suggestion |-> [text |-> "Investigate initialization,CrashLoopBackOff; check livenessProbe too aggressive, check readiness probe vs startup probe."]] >>
    ELSE <<>>

\* The three checks as one if/elif chain: at most one issue per container.
ContainerIssuesExclusive(p, cs) ==
    IF WaitingIssues(p, cs) # <<>> THEN WaitingIssues(p, cs)
    ELSE IF TerminatedIssues(p, cs) # <<>> THEN TerminatedIssues(p, cs)
    ELSE RestartIssues(p, cs)

\* The body of the container loop: the three checks, one after the other.
ContainerIssues(p, cs) ==
    WaitingIssues(p, cs) \o TerminatedIssues(p, cs) \o RestartIssues(p, cs)

\* The Pending check of analyze_pods for one pod.
PendingIssues(p) ==
    IF p.phase = "Pending"
    THEN << [severity |-> "warning",
             title |-> TitlePodPending \o NsName(p.namespace, p.name),
             detail |-> [Phase |-> "Pending",
                         message |-> IF p.message = "" THEN "none" ELSE p.message],
             suggestion |-> [text |-> "kubectl describe pod -n {ns} {name} to see events; check PVCs, scheduling, node selectors, resource requests."]] >>
    ELSE <<>>

\* The body of analyze_pods' loop for one pod.
PodIssues(p) ==
    PendingIssues(p)
      \o Flatten([i \in 1..Len(p.container_statuses) |->
                    ContainerIssues(p, p.container_statuses[i])])

\* analyze_pods(v1, namespace): the list call stands outside any try, so an
\* ApiException leaves the function.
analyze_pods(listing) ==
    IF listing = ApiFault THEN Raise("ApiException")
    ELSE Return(Flatten([i \in 1..Len(listing.items) |-> PodIssues(listing.items[i])]))

\* The body of check_deployments' loop for one deployment.
DeploymentIssues(d) ==
    LET mismatch ==
            IF d.replicas # d.available_replicas
            THEN << [severity |-> "warning",
                     title |-> TitleReplicaMismatch \o NsName(d.namespace, d.name),
                     detail |-> [desired |-> d.replicas,
                                 available |-> d.available_replicas],
                     suggestion |-> [text |-> "Check recent rollout: kubectl rollout status deployment/{name} -n {ns}; inspect pods for crash/scheduling issues."]] >>
            ELSE <<>>
        stalled(c) ==
            IF c.type = "Progressing" /\ c.status = "False"
            THEN << [severity |-> "warning",
                     title |-> TitleNotProgressing \o NsName(d.namespace, d.name),
                     detail |-> [reason |-> c.reason, message |-> c.message],
                     suggestion |-> [text |-> "kubectl describe deployment -n {ns} {name}; check events and ReplicaSets"]] >>
            ELSE <<>>
    IN  mismatch \o Flatten([i \in 1..Len(d.conditions) |-> stalled(d.conditions[i])])

\* check_deployments(apps_v1, namespace)
check_deployments(listing) ==
    IF listing = ApiFault THEN ListFailure(TitleFailedDeployments)
    ELSE Flatten([i \in 1..Len(listing.items) |-> DeploymentIssues(listing.items[i])])

\* The body of check_pvcs' loop for one claim.
PvcIssues(pvc) ==
    IF pvc.phase # "Bound"
    THEN << [severity |-> "warning",
             title |-> TitlePVCNotBound \o NsName(pvc.namespace, pvc.name),
             detail |-> [phase |-> pvc.phase],
             suggestion |-> [text |-> "Check StorageClass, PV availability, and events: kubectl describe pvc -n {ns} {name}"]] >>
    ELSE <<>>

\* check_pvcs(v1, namespace)
check_pvcs(listing) ==
    IF listing = ApiFault THEN ListFailure(TitleFailedPVCs)
    ELSE Flatten([i \in 1..Len(listing.items) |-> PvcIssues(listing.items[i])])

\* The timestamps taken in the opposite preference order.
EffectiveTimeFirstSeen(e) ==
    IF e.first_timestamp # None THEN e.first_timestamp
    ELSE IF e.event_time # None THEN e.event_time
    ELSE e.last_timestamp

\* e.last_timestamp or e.event_time or e.first_timestamp
EffectiveTime(e) ==
    IF e.last_timestamp # None THEN e.last_timestamp
    ELSE IF e.event_time # None THEN e.event_time
    ELSE e.first_timestamp

\* now - since_minutes*60
Cutoff(clock, window) == clock - window * 60

\* The body of collect_events' loop for one event.  A timestamp is None, a
\* datetime [epoch |-> seconds], or a value without timestamp() [raw |-> ..].
EventIssues(e, cutoff) ==
    LET t == EffectiveTime(e)
    IN  IF t = None THEN <<>>
        ELSE IF "epoch" \notin DOMAIN t THEN <<>>
        ELSE IF t.epoch < cutoff THEN <<>>
        ELSE IF e.type = "Warning"
        THEN << [severity |-> "warning",
                 title |-> TitleEvent \o e.involved_kind \o Space
                             \o e.involved_name \o Dash \o e.reason,
                 detail |-> [text |-> e.message],
                 suggestion |-> [text |-> "Investigate the resource and reason; kubectl describe on the involved object."]] >>
        ELSE <<>>

\* collect_events(v1, since_minutes, namespace)
collect_events(listing, window, clock) ==
    IF listing = ApiFault THEN ListFailure(TitleFailedEvents)
    ELSE Flatten([i \in 1..Len(listing.items) |->
                    EventIssues(listing.items[i], Cutoff(clock, window))])

-----------------------------------------------------------------------------
(* The report: pretty_print_issues *)

\* sev_order.get(severity, 1)
SevRank(severity) ==
    CASE severity = "error" -> 0
      [] severity = "warning" -> 1
      [] severity = "info" -> 2
      [] OTHER -> 1

\* A sort by severity alone: the key without the title.
KeyLessBySeverityOnly(x, y) ==
    SevRank(x.severity) < SevRank(y.severity)

\* The sort key's order: (rank, title) tuples compared as Python compares them.
KeyLess(x, y) ==
    \/ SevRank(x.severity) < SevRank(y.severity)
    \/ /\ SevRank(x.severity) = SevRank(y.severity)
       /\ StrLess(x.title, y.title)

\* One step of a stable sort: x, which came after every entry of s in the
\* input, goes before the first entry whose key is greater than its own.
Insert(x, s) ==
    LET later == {i \in 1..Len(s) : KeyLess(x, s[i])}
        at == IF later = {} THEN Len(s) + 1
              ELSE CHOOSE i \in later : \A j \in later : i <= j
    IN  SubSeq(s, 1, at - 1) \o <<x>> \o SubSeq(s, at, Len(s))

RECURSIVE sorted(_)
\* sorted(issues, key=...): Python's sort is stable.
sorted(issues) ==
    IF issues = <<>> THEN <<>>
    ELSE Insert(issues[Len(issues)], sorted(SubSeq(issues, 1, Len(issues) - 1)))

\* pretty_print_issues(issues): the healthy message, or the numbered entries
\* (entry i of `entries` is printed as [i]).
pretty_print_issues(issues) ==
    IF issues = <<>> THEN [healthy |-> TRUE, entries |-> <<>>]
    ELSE [healthy |-> FALSE, entries |-> sorted(issues)]

-----------------------------------------------------------------------------
(* Manifest validation (dry-run) *)

\* What subprocess.run can do: fail to launch the tool (it raises), or run it
\* to an exit status with its combined output.
ProcOutcomes ==
    { [launched |-> FALSE, returncode |-> -1, output |-> "OSError"],
      [launched |-> TRUE, returncode |-> 0, output |-> "configured"],
      [launched |-> TRUE, returncode |-> 1, output |-> "error: rejected"] }

\* ["kubectl", "apply", "--dry-run=server", "-f", manifest_path] (+ ["-n", ns])
DryRunCmd(manifest, namespace) ==
    [tool |-> "kubectl", verb |-> "apply", dry_run |-> "server",
     f |-> manifest, n |-> namespace]

\* ["kubectl", "apply", "-f", manifest] (+ ["-n", ns])
ApplyCmd(manifest, namespace) ==
    [tool |-> "kubectl", verb |-> "apply", dry_run |-> "",
     f |-> manifest, n |-> namespace]

\* kubectl_dry_run(manifest_path, namespace), given what subprocess.run did.
kubectl_dry_run(proc) ==
    IF ~proc.launched
    THEN Return([ok |-> FALSE, out |-> <<[text |-> "Failed to run kubectl: ",
                                          error |-> proc.output]>>])
    ELSE Return([ok |-> proc.returncode = 0, out |-> <<[text |-> proc.output]>>])

\* "name" as the str the metadata test looks for.
NameText == <<110, 97, 109, 101>>

\* `"name" in value`, by the type of value: a key of a mapping, a substring of
\* a str, an element of a list; None and numbers are not iterable.
ContainsName(value) ==
    CASE value.t = "dict" -> Return("name" \in DOMAIN value.fields)
      [] value.t = "str" -> Return(StrContains(NameText, value.chars))
      [] value.t = "list" ->
            Return(\E i \in 1..Len(value.items) :
                      value.items[i] = [t |-> "str", chars |-> NameText])
      [] OTHER -> Raise("TypeError")

\* d.get("metadata", {})
GetMetadata(d) ==
    IF "metadata" \in DOMAIN d.fields THEN d.fields.metadata
    ELSE [t |-> "dict", fields |-> <<>>]

\* The body of simple_local_manifest_check's loop for document i.
DocProblems(i, d) ==
    IF d.t # "dict"
    THEN Return(<<[doc |-> i, text |-> "is not a mapping"]>>)
    ELSE LET kind == IF "kind" \notin DOMAIN d.fields
                     THEN <<[doc |-> i, text |-> "missing 'kind'"]>>
                     ELSE <<>>
             named == IF "metadata" \notin DOMAIN d.fields THEN Return(FALSE)
                      ELSE ContainsName(GetMetadata(d))
         IN  IF named.raised # "" THEN named
             ELSE IF ~named.value
             THEN Return(kind \o <<[doc |-> i, text |-> "missing metadata.name"]>>)
             ELSE Return(kind)

\* simple_local_manifest_check(manifest_path), given the file as
\* yaml.safe_load_all reads it.  Documents are numbered from 0.
simple_local_manifest_check(content) ==
    IF ~content.parsed
    THEN Return([ok |-> FALSE, out |-> <<[text |-> "YAML parse error: "]>>])
    ELSE LET each == [i \in 1..Len(content.docs) |->
                        DocProblems(i - 1, content.docs[i])]
             problems == Flatten([i \in 1..Len(each) |->
                                    IF each[i].raised = "" THEN each[i].value
                                    ELSE <<>>])
         IN  IF \E i \in 1..Len(each) : each[i].raised # ""
             THEN Raise("TypeError")
             ELSE Return([ok |-> problems = <<>>,
                          out |-> IF problems = <<>>
                                  THEN <<[text |-> "Basic YAML checks passed."]>>
                                  ELSE problems])

-----------------------------------------------------------------------------
(* Main driver: scan_cluster, validate_manifest, apply_manifest, main *)

Kinds == {"nodes", "pods", "deployments", "pvcs", "events"}

\* What the API server answers to the list call of `kind`: the fault, every
\* object (list_*_for_all_namespaces, list_node), or those of one namespace
\* (list_namespaced_*).
List(kind, namespace) ==
    IF cluster[kind] = ApiFault THEN ApiFault
    ELSE IF kind = "nodes" \/ namespace = <<>> THEN cluster[kind]
    ELSE [items |-> SelectSeq(cluster[kind].items,
                              LAMBDA o : o.namespace = namespace)]

\* The record of a list call in the trace.
Listed(kind, answer) ==
    [ev |-> "list", kind |-> kind, failed |-> (answer = ApiFault)]

\* validate_manifest(manifest, namespace), given what shutil.which found,
\* what subprocess.run did and what the file holds: the dry-run when kubectl
\* is there, the local check when it is not.
validate_manifest(manifest, namespace, found, proc, content) ==
    IF found
    THEN [result |-> kubectl_dry_run(proc),
          events |-> << [ev |-> "which", found |-> TRUE],
                        [ev |-> "run", cmd |-> DryRunCmd(manifest, namespace),
                         proc |-> proc] >>]
    ELSE [result |-> simple_local_manifest_check(content),
          events |-> << [ev |-> "which", found |-> FALSE],
                        [ev |-> "local_check", path |-> manifest] >>]

\* apply_manifest(manifest, namespace): subprocess.run stands outside any
\* try, so a launch failure leaves the function.
apply_manifest(manifest, namespace, found, proc) ==
    IF ~found
    THEN [result |-> Return([ok |-> FALSE, out |-> <<[text |-> "kubectl not found"]>>]),
          events |-> << [ev |-> "which", found |-> FALSE] >>]
    ELSE [result |-> IF ~proc.launched THEN Raise("OSError")
                     ELSE Return([ok |-> proc.returncode = 0,
                                  out |-> <<[text |-> proc.output]>>]),
          events |-> << [ev |-> "which", found |-> TRUE],
                        [ev |-> "run", cmd |-> ApplyCmd(manifest, namespace),
                         proc |-> proc] >>]

\* A verdict as main keeps it.
Verdict(b) == IF b THEN "ok" ELSE "failed"

\* load_k8s_config(): kubeconfig, else in-cluster config, else sys.exit(1).
LoadConfig ==
    /\ pc = "main"
    /\ ~args.no_scan
    /\ \E loaded \in BOOLEAN :
          IF loaded
          THEN pc' = "nodes" /\ fault' = fault
          ELSE pc' = "exit" /\ fault' = "SystemExit"
    /\ UNCHANGED <<args, cluster, since_minutes, now, file, all_issues,
                   printed, ok, out, trace, log>>

\* main with --no-scan: the scan and the report are skipped.
SkipScan ==
    /\ pc = "main"
    /\ args.no_scan
    /\ pc' = "manifest"
    /\ UNCHANGED <<args, cluster, since_minutes, now, file, all_issues,
                   printed, ok, out, trace, log, fault>>

\* all_issues += check_nodes(v1)
CheckNodes ==
    /\ pc = "nodes"
    /\ LET answer == List("nodes", args.namespace)
       IN  /\ all_issues' = all_issues \o check_nodes(answer)
           /\ trace' = Append(trace, Listed("nodes", answer))
    /\ pc' = "pods"
    /\ UNCHANGED <<args, cluster, since_minutes, now, file, printed, ok, out,
                   log, fault>>

\* all_issues += analyze_pods(v1, namespace)
AnalyzePods ==
    /\ pc = "pods"
    /\ LET answer == List("pods", args.namespace)
           r == analyze_pods(answer)
       IN  /\ trace' = Append(trace, Listed("pods", answer))
           /\ IF r.raised # ""
              THEN /\ fault' = r.raised
                   /\ pc' = "crashed"
                   /\ UNCHANGED all_issues
              ELSE /\ all_issues' = all_issues \o r.value
                   /\ pc' = "deployments"
                   /\ UNCHANGED fault
    /\ UNCHANGED <<args, cluster, since_minutes, now, file, printed, ok, out, log>>

\* all_issues += check_deployments(apps_v1, namespace)
CheckDeployments ==
    /\ pc = "deployments"
    /\ LET answer == List("deployments", args.namespace)
       IN  /\ all_issues' = all_issues \o check_deployments(answer)
           /\ trace' = Append(trace, Listed("deployments", answer))
    /\ pc' = "pvcs"
    /\ UNCHANGED <<args, cluster, since_minutes, now, file, printed, ok, out,
                   log, fault>>

\* A scan that a failed claim listing ends: the event classifier is skipped.
CheckPvcsAborting ==
    /\ pc = "pvcs"
    /\ LET answer == List("pvcs", args.namespace)
       IN  /\ all_issues' = all_issues \o check_pvcs(answer)
           /\ trace' = Append(trace, Listed("pvcs", answer))
           /\ pc' = IF answer = ApiFault THEN "print" ELSE "events"
    /\ UNCHANGED <<args, cluster, since_minutes, now, file, printed, ok, out,
                   log, fault>>

\* all_issues += check_pvcs(v1, namespace)
CheckPvcs ==
    /\ pc = "pvcs"
    /\ LET answer == List("pvcs", args.namespace)
       IN  /\ all_issues' = all_issues \o check_pvcs(answer)
           /\ trace' = Append(trace, Listed("pvcs", answer))
    /\ pc' = "events"
    /\ UNCHANGED <<args, cluster, since_minutes, now, file, printed, ok, out,
                   log, fault>>

\* all_issues += collect_events(v1, since_minutes=60, namespace=namespace);
\* scan_cluster returns and main holds the list as `issues`.
CollectEvents ==
    /\ pc = "events"
    /\ LET answer == List("events", args.namespace)
       IN  /\ all_issues' = all_issues \o collect_events(answer, since_minutes, now)
           /\ trace' = Append(trace, Listed("events", answer))
    /\ pc' = "print"
    /\ UNCHANGED <<args, cluster, since_minutes, now, file, printed, ok, out,
                   log, fault>>

\* pretty_print_issues(issues)
PrettyPrint ==
    /\ pc = "print"
    /\ printed' = pretty_print_issues(all_issues)
    /\ pc' = "manifest"
    /\ UNCHANGED <<args, cluster, since_minutes, now, file, all_issues, ok,
                   out, trace, log, fault>>

\* main without --manifest
NoManifest ==
    /\ pc = "manifest"
    /\ args.manifest = ""
    /\ log' = Append(log, "[main] No manifest provided. Scan-only run complete.")
    /\ pc' = "done"
    /\ UNCHANGED <<args, cluster, since_minutes, now, file, all_issues,
                   printed, ok, out, trace, fault>>

\* ok, out = validate_manifest(args.manifest, namespace), the report of the
\* verdict, and the test of args.apply.
ValidateFirst ==
    /\ pc = "manifest"
    /\ args.manifest # ""
    /\ \E found \in BOOLEAN, proc \in ProcOutcomes :
          LET v == validate_manifest(args.manifest, args.namespace, found,
                                     proc, file)
              called == Append(trace, [ev |-> "call", fn |-> "validate_manifest"])
          IN  IF v.result.raised # ""
              THEN /\ fault' = v.result.raised
                   /\ pc' = "crashed"
                   /\ trace' = called \o v.events
                   /\ UNCHANGED <<ok, out, log>>
              ELSE /\ ok' = [ok EXCEPT !.ok = Verdict(v.result.value.ok)]
                   /\ out' = v.result.value.out
                   /\ trace' = called \o v.events
                          \o << [ev |-> "return", fn |-> "validate_manifest",
                                 ok |-> v.result.value.ok] >>
                   /\ log' = Append(log,
                                IF v.result.value.ok
                                THEN "[main] Manifest validated OK by server-side dry-run (or basic checks)."
                                ELSE "[main] Manifest validation failed. Suggested actions:")
                   /\ pc' = IF args.apply THEN "revalidate" ELSE "done"
                   /\ UNCHANGED fault
    /\ UNCHANGED <<args, cluster, since_minutes, now, file, all_issues, printed>>

\* A gate that lets the first validation's verdict authorize the apply.
ApplyGateReusingFirst(first, second) == first = "ok"

\* The gate of main: `if not ok2` refuses, else apply_manifest is called.
\* `first` is main's ok, `second` its ok2.
ApplyGate(first, second) == second = "ok"

\* ok2, out2 = validate_manifest(args.manifest, namespace) and the gate.
ValidateSecond ==
    /\ pc = "revalidate"
    /\ \E found \in BOOLEAN, proc \in ProcOutcomes :
          LET v == validate_manifest(args.manifest, args.namespace, found,
                                     proc, file)
              called == Append(trace, [ev |-> "call", fn |-> "validate_manifest"])
              announced == Append(log, "[main] User requested apply; performing server-side dry-run before apply once more...")
          IN  IF v.result.raised # ""
              THEN /\ fault' = v.result.raised
                   /\ pc' = "crashed"
                   /\ trace' = called \o v.events
                   /\ log' = announced
                   /\ UNCHANGED <<ok, out>>
              ELSE /\ ok' = [ok EXCEPT !.ok2 = Verdict(v.result.value.ok)]
                   /\ out' = v.result.value.out
                   /\ trace' = called \o v.events
                          \o << [ev |-> "return", fn |-> "validate_manifest",
                                 ok |-> v.result.value.ok] >>
                   /\ IF ~ApplyGate(ok.ok, Verdict(v.result.value.ok))
                      THEN /\ log' = Append(announced, "[main] Dry-run failed; NOT applying. Fix manifest first.")
                           /\ pc' = "done"
                      ELSE /\ log' = Append(announced, "[main] Dry-run succeeded. Proceeding to apply (kubectl apply)...")
                           /\ pc' = "apply"
                   /\ UNCHANGED fault
    /\ UNCHANGED <<args, cluster, since_minutes, now, file, all_issues, printed>>

\* ok_apply, apply_out = apply_manifest(args.manifest, namespace) and the
\* report of its outcome.
ApplyManifest ==
    /\ pc = "apply"
    /\ \E found \in BOOLEAN, proc \in ProcOutcomes :
          LET a == apply_manifest(args.manifest, args.namespace, found, proc)
              called == Append(trace, [ev |-> "call", fn |-> "apply_manifest"])
          IN  IF a.result.raised # ""
              THEN /\ fault' = a.result.raised
                   /\ pc' = "crashed"
                   /\ trace' = called \o a.events
                   /\ UNCHANGED <<ok, out, log>>
              ELSE /\ ok' = [ok EXCEPT !.ok_apply = Verdict(a.result.value.ok)]
                   /\ out' = a.result.value.out
                   /\ trace' = called \o a.events
                          \o << [ev |-> "return", fn |-> "apply_manifest",
                                 ok |-> a.result.value.ok] >>
                   /\ log' = Append(log,
                                IF a.result.value.ok
                                THEN "[main] Apply succeeded (kubectl reported success)."
                                ELSE "[main] Apply failed; inspect the error output above.")
                   /\ pc' = "done"
                   /\ UNCHANGED fault
    /\ UNCHANGED <<args, cluster, since_minutes, now, file, all_issues, printed>>

-----------------------------------------------------------------------------
(* The inputs the specifications draw from *)

\* Bounds on the lists handed to the classifiers, the report and the local
\* manifest check.
MaxPods == 2
MaxEvents == 3
MaxIssues == 3
MaxDocs == 2

\* Sequences over S of length at most n.
SeqUpTo(S, n) == UNION {[1..k -> S] : k \in 0..n}

\* Object names and namespaces: "a", "b", "prod", "dev".
NameA == <<97>>
NameB == <<98>>
NsProd == <<112, 114, 111, 100>>
NsDev == <<100, 101, 118>>

\* Nodes: one Ready, one not Ready, cordoned and under disk pressure.
NodeReady ==
    [name |-> NameA, unschedulable |-> FALSE,
     conditions |-> << [type |-> "Ready", status |-> "True",
                        last_heartbeat_time |-> "t1",
                        last_transition_time |-> "t0"] >>]
NodeTroubled ==
    [name |-> NameB, unschedulable |-> TRUE,
     conditions |-> << [type |-> "DiskPressure", status |-> "True",
                        last_heartbeat_time |-> "t1",
                        last_transition_time |-> "t0"],
                       [type |-> "Ready", status |-> "False",
                        last_heartbeat_time |-> "t1",
                        last_transition_time |-> "t0"] >>]

\* Container statuses: every waiting state (none, the six reasons of the rule
\* table, one reason outside it), every kind of last termination, and restart
\* counts around the threshold.
WaitingStates ==
    {None} \cup
    { [reason |-> r, message |-> "back-off"] :
        r \in {"CrashLoopBackOff", "Error", "ImagePullBackOff", "ErrImagePull",
               "RegistryUnavailable", "CreateContainerConfigError",
               "ContainerCreating"} }
TerminatedStates ==
    { None,
      [reason |-> "OOMKilled", signal |-> 0, exit_code |-> 137, finished_at |-> "t1"],
      [reason |-> "Error", signal |-> 9, exit_code |-> 137, finished_at |-> "t1"],
      [reason |-> "Error", signal |-> 15, exit_code |-> 1, finished_at |-> "t1"] }
RestartCounts == {0, 5, 6, 7}
ContainerUniverse(cname) ==
    { [name |-> cname, waiting |-> w, terminated |-> t, restart_count |-> r] :
        w \in WaitingStates, t \in TerminatedStates, r \in RestartCounts }

\* A healthy container, and one in CrashLoopBackOff with seven restarts.
ContainerHealthy(cname) ==
    [name |-> cname, waiting |-> None, terminated |-> None, restart_count |-> 0]
ContainerCrashing(cname) ==
    [name |-> cname, waiting |-> [reason |-> "CrashLoopBackOff", message |-> "back-off"],
     terminated |-> None, restart_count |-> 7]
ContainerKilled(cname) ==
    [name |-> cname, waiting |-> None,
     terminated |-> [reason |-> "OOMKilled", signal |-> 9, exit_code |-> 137,
                     finished_at |-> "t1"],
     restart_count |-> 6]

\* Pods: without container statuses, with any one, and with two.
PodUniverse ==
    LET pair == {ContainerHealthy(NameB), ContainerCrashing(NameB),
                 ContainerKilled(NameB)}
        statuses == {<<>>} \cup {<<c>> : c \in ContainerUniverse(NameA)}
                      \cup {<<c, d>> : c \in {ContainerCrashing(NameA),
                                              ContainerKilled(NameA),
                                              ContainerHealthy(NameA)},
                                       d \in pair}
    IN  { [namespace |-> NsProd, name |-> NameA, phase |-> ph, message |-> "",
           container_statuses |-> cs] :
            ph \in {"Pending", "Running"}, cs \in statuses }
\* A few pods to follow the first of a list.
PodFew ==
    { [namespace |-> NsProd, name |-> NameB, phase |-> ph, message |-> "",
       container_statuses |-> cs] :
        ph \in {"Pending", "Running"},
        cs \in {<<>>, <<ContainerCrashing(NameA), ContainerKilled(NameB)>>} }

\* Pod lists: empty, or any pod followed by fewer than MaxPods of the few.
PodLists ==
    {<<>>} \cup {<<p>> \o rest : p \in PodUniverse,
                                 rest \in SeqUpTo(PodFew, MaxPods - 1)}
PodCrashing ==
    [namespace |-> NsProd, name |-> NameA, phase |-> "Pending",
     message |-> "0/3 nodes are available",
     container_statuses |-> <<ContainerCrashing(NameA)>>]

\* Deployments and claims.
DeploymentShort ==
    [namespace |-> NsProd, name |-> NameA, replicas |-> 3, available_replicas |-> 1,
     conditions |-> << [type |-> "Progressing", status |-> "False",
                        reason |-> "ProgressDeadlineExceeded",
                        message |-> "timed out"] >>]
PvcPending == [namespace |-> NsDev, name |-> NameA, phase |-> "Pending"]

\* Event timestamps: absent, not a datetime, and datetimes 90, 60 and 30
\* minutes before the clock reading of Nows.
Nows == {7200}
Windows == {30, 60}
Stamps ==
    {None, [raw |-> "2024-01-01T00:00:00Z"]}
      \cup {[epoch |-> t] : t \in {1800, 3600, 5400}}
EventUniverse ==
    { [namespace |-> NsProd, type |-> ty, involved_kind |-> <<80, 111, 100>>,
       involved_name |-> NameA, reason |-> <<66, 97, 99, 107, 79, 102, 102>>,
       message |-> "Back-off restarting failed container",
       last_timestamp |-> l, event_time |-> e, first_timestamp |-> f] :
        ty \in {"Warning", "Normal"}, l \in Stamps, e \in Stamps, f \in Stamps }
\* A Warning 90 minutes old, a Normal event 30 minutes old, a Warning
\* without any timestamp.
EventAt(ty, l, e, f) ==
    [namespace |-> NsProd, type |-> ty, involved_kind |-> <<80, 111, 100>>,
     involved_name |-> NameB, reason |-> <<66, 97, 99, 107, 79, 102, 102>>,
     message |-> "Back-off restarting failed container",
     last_timestamp |-> l, event_time |-> e, first_timestamp |-> f]
EventFew ==
    { EventAt("Warning", [epoch |-> 1800], None, None),
      EventAt("Normal", [epoch |-> 5400], None, None),
      EventAt("Warning", None, None, None),
      EventAt("Warning", None, [epoch |-> 5400], [epoch |-> 1800]) }

\* Event lists: empty, or any event followed by fewer than MaxEvents of the
\* few.
EventLists ==
    {<<>>} \cup {<<e>> \o rest : e \in EventUniverse,
                                 rest \in SeqUpTo(EventFew, MaxEvents - 1)}
EventRecentWarning ==
    [namespace |-> NsProd, type |-> "Warning", involved_kind |-> <<80, 111, 100>>,
     involved_name |-> NameA, reason |-> <<66, 97, 99, 107, 79, 102, 102>>,
     message |-> "Back-off restarting failed container",
     last_timestamp |-> [epoch |-> 5400], event_time |-> None,
     first_timestamp |-> [epoch |-> 1800]]

\* Issues handed to the report: the three severities and one the rank table
\* does not name, titles "a" < "aa" < "b", and two details to tell equal keys
\* apart.
IssueUniverse ==
    [severity : {"error", "warning", "info", "critical"},
     title : {<<97>>, <<97, 97>>, <<98>>},
     detail : {[text |-> "first"], [text |-> "second"]},
     suggestion : {[text |-> "look"]}]

\* YAML values a document can hold under `metadata`: mappings with and
\* without `name`, null, strs with and without "name" in them, a list, a
\* number.
Str(chars) == [t |-> "str", chars |-> chars]
MetadataValues ==
    { [t |-> "dict", fields |-> [name |-> Str(<<119, 101, 98>>)]],
      [t |-> "dict", fields |-> [labels |-> Str(<<119, 101, 98>>)]],
      [t |-> "null"],
      Str(<<109, 121, 110, 97, 109, 101>>),
      Str(<<119, 101, 98>>),
      [t |-> "list", items |-> <<Str(NameText)>>],
      [t |-> "int"] }

\* Documents: two that are no mapping, and mappings with or without `kind`,
\* with or without `metadata`.
DocUniverse ==
    { [t |-> "null"], [t |-> "list", items |-> <<>>] }
      \cup { [t |-> "dict", fields |-> [apiVersion |-> Str(<<118, 49>>)]],
             [t |-> "dict", fields |-> [apiVersion |-> Str(<<118, 49>>),
                                        kind |-> Str(<<80, 111, 100>>)]] }
      \cup { [t |-> "dict", fields |-> [apiVersion |-> Str(<<118, 49>>),
                                        metadata |-> m]] : m \in MetadataValues }
      \cup { [t |-> "dict", fields |-> [apiVersion |-> Str(<<118, 49>>),
                                        kind |-> Str(<<80, 111, 100>>),
                                        metadata |-> m]] : m \in MetadataValues }

\* A file yaml.safe_load_all cannot read, and files of documents.
Unparseable == [parsed |-> FALSE, docs |-> <<>>]
FileUniverse ==
    {Unparseable} \cup {[parsed |-> TRUE, docs |-> ds] : ds \in SeqUpTo(DocUniverse, MaxDocs)}
DocGood ==
    [t |-> "dict", fields |-> [apiVersion |-> Str(<<118, 49>>),
                               kind |-> Str(<<80, 111, 100>>),
                               metadata |-> [t |-> "dict",
                                             fields |-> [name |-> Str(<<119, 101, 98>>)]]]]
DocNullMetadata ==
    [t |-> "dict", fields |-> [apiVersion |-> Str(<<118, 49>>),
                               kind |-> Str(<<80, 111, 100>>),
                               metadata |-> [t |-> "null"]]]

-----------------------------------------------------------------------------
(* Initial states and specifications *)

\* What main has before its first call.
Fresh ==
    /\ printed = None
    /\ ok = [ok |-> "none", ok2 |-> "none", ok_apply |-> "none"]
    /\ out = <<>>
    /\ trace = <<>>
    /\ log = <<>>
    /\ fault = ""

\* A cluster without objects.
EmptyCluster == [k \in Kinds |-> [items |-> <<>>]]

ScanOnlyArgs ==
    [namespace |-> <<>>, manifest |-> "", apply |-> FALSE, no_scan |-> FALSE]

\* main: any command line, a cluster whose list calls fail or answer, a
\* manifest file.
Init ==
    /\ pc = "main"
    /\ args \in [namespace : {<<>>, NsProd}, manifest : {"", "app.yaml"},
                 apply : BOOLEAN, no_scan : BOOLEAN]
    /\ cluster \in [nodes : {ApiFault, [items |-> <<NodeReady, NodeTroubled>>]},
                    pods : {ApiFault, [items |-> <<>>], [items |-> <<PodCrashing>>]},
                    deployments : {ApiFault, [items |-> <<DeploymentShort>>]},
                    pvcs : {ApiFault, [items |-> <<PvcPending>>]},
                    events : {ApiFault, [items |-> <<EventRecentWarning>>]}]
    /\ since_minutes = 60
    /\ now \in Nows
    /\ file \in {Unparseable,
                 [parsed |-> TRUE, docs |-> <<DocGood>>],
                 [parsed |-> TRUE, docs |-> <<DocGood, DocNullMetadata>>]}
    /\ all_issues = <<>>
    /\ Fresh

Next ==
    \/ LoadConfig
    \/ SkipScan
    \/ CheckNodes
    \/ AnalyzePods
    \/ CheckDeployments
    \/ CheckPvcs
    \/ CollectEvents
    \/ PrettyPrint
    \/ NoManifest
    \/ ValidateFirst
    \/ ValidateSecond
    \/ ApplyManifest

Spec == Init /\ [][Next]_vars

\* analyze_pods on every pod list within the bound.
InitPods ==
    /\ pc = "pods"
    /\ args = ScanOnlyArgs
    /\ cluster \in {[EmptyCluster EXCEPT !.pods = [items |-> ps]] :
                      ps \in PodLists}
    /\ since_minutes = 60
    /\ now \in Nows
    /\ file = Unparseable
    /\ all_issues = <<>>
    /\ Fresh

NextPods == AnalyzePods

SpecPods == InitPods /\ [][NextPods]_vars

\* collect_events on every event list within the bound, under each window.
InitEvents ==
    /\ pc = "events"
    /\ args = ScanOnlyArgs
    /\ cluster \in {[EmptyCluster EXCEPT !.events = [items |-> es]] :
                      es \in EventLists}
    /\ since_minutes \in Windows
    /\ now \in Nows
    /\ file = Unparseable
    /\ all_issues = <<>>
    /\ Fresh

NextEvents == CollectEvents

SpecEvents == InitEvents /\ [][NextEvents]_vars

\* pretty_print_issues on every issue list within the bound.
InitReport ==
    /\ pc = "print"
    /\ args = ScanOnlyArgs
    /\ cluster = EmptyCluster
    /\ since_minutes = 60
    /\ now \in Nows
    /\ file = Unparseable
    /\ all_issues \in SeqUpTo(IssueUniverse, MaxIssues)
    /\ Fresh

NextReport == PrettyPrint

SpecReport == InitReport /\ [][NextReport]_vars

\* validate_manifest on every manifest file within the bound, kubectl there
\* or not.
InitManifest ==
    /\ pc = "manifest"
    /\ args = [namespace |-> <<>>, manifest |-> "app.yaml", apply |-> FALSE,
               no_scan |-> TRUE]
    /\ cluster = EmptyCluster
    /\ since_minutes = 60
    /\ now \in Nows
    /\ file \in FileUniverse
    /\ all_issues = <<>>
    /\ Fresh

NextManifest == ValidateFirst

SpecManifest == InitManifest /\ [][NextManifest]_vars

-----------------------------------------------------------------------------
(* Properties of the apply gate (Spec) *)

\* The positions of the trace holding an event of kind `ev`.
At(ev) == {i \in 1..Len(trace) : trace[i].ev = ev}

\* The verdicts validate_manifest returned, in the order of its calls.
ValidateReturns ==
    SelectSeq(trace, LAMBDA e : e.ev = "return" /\ e.fn = "validate_manifest")

\* The positions where apply_manifest is called.
ApplyCalls == {i \in At("call") : trace[i].fn = "apply_manifest"}

\* The positions where `kubectl apply -f` (no dry-run flag) is executed.
Mutations ==
    {i \in At("run") : trace[i].cmd.dry_run = "" /\ trace[i].proc.launched}

\* The positions of validation steps: a dry-run executed, or a local check.
ValidationSteps ==
    {i \in At("run") : trace[i].cmd.dry_run = "server"} \cup At("local_check")

\* C1: apply_manifest is called only with --manifest and --apply given and
\* directly after the second validate_manifest call returned success; when the
\* first validation succeeds and the second fails, apply_manifest is not
\* called and main ends reporting the failed dry-run.
C1_ApplyOnlyAfterSecondValidation ==
    /\ \A i \in ApplyCalls :
          /\ args.manifest # "" /\ args.apply
          /\ i > 1
          /\ trace[i - 1] = [ev |-> "return", fn |-> "validate_manifest", ok |-> TRUE]
          /\ Len(ValidateReturns) = 2
          /\ ValidateReturns[2].ok
    /\ (Len(ValidateReturns) = 2 /\ ValidateReturns[1].ok /\ ~ValidateReturns[2].ok)
          => /\ ApplyCalls = {}
             /\ Mutations = {}
             /\ pc = "done"
             /\ log[Len(log)] = "[main] Dry-run failed; NOT applying. Fix manifest first."

\* C1's case: the first validation succeeded, the second failed, main ended.
C1_Witness ==
    /\ pc = "done"
    /\ ok.ok = "ok"
    /\ ok.ok2 = "failed"
    /\ Len(ValidateReturns) = 2

\* C2: whenever `kubectl apply -f <manifest>` is executed, the validation
\* step directly before it was a dry-run of the same manifest and namespace
\* that exited with status zero, and it belongs to the second validate_manifest
\* call, whatever each availability probe and each tool invocation did.
C2_MutationOnlyAfterFreshDryRun ==
    \A i \in Mutations :
        LET before == {j \in ValidationSteps : j < i}
            last == CHOOSE j \in before : \A k \in before : k <= j
        IN  /\ before # {}
            /\ trace[last].ev = "run"
            /\ trace[last].cmd = DryRunCmd(trace[i].cmd.f, trace[i].cmd.n)
            /\ trace[last].proc.launched
            /\ trace[last].proc.returncode = 0
            /\ Cardinality({j \in At("call") : j < last
                               /\ trace[j].fn = "validate_manifest"}) = 2

\* C8: a failure to launch the external tool is captured in both operations
\* that invoke it: the failure does not leave the call as an exception, the
\* call returns a failed outcome and main goes on.
C8_LaunchFailureCaptured ==
    \A i \in At("run") :
        ~trace[i].proc.launched
          => /\ fault # "OSError"
             /\ i < Len(trace)
             /\ trace[i + 1].ev = "return"
             /\ ~trace[i + 1].ok

-----------------------------------------------------------------------------
(* Properties of the scan (Spec) *)

\* The positions where the list call of `kind` was made, and where it failed.
ListedAt(kind) == {i \in At("list") : trace[i].kind = kind}
FailedAt(kind) == {i \in ListedAt(kind) : trace[i].failed}

\* The number of entries of `issues` that are errors titled `title`.
ErrorsTitled(issues, title) ==
    Cardinality({i \in 1..Len(issues) :
                    issues[i].severity = "error" /\ issues[i].title = title})

\* C3: for each of the five kinds, a failed list call makes the kind's
\* classifier return exactly one issue, an error, and raises nothing: no
\* ApiException is left uncaught, and the aggregated list holds one error per
\* failed list call, titled as that kind's failure where the kind has a title.
C3_ListFailureYieldsOneError ==
    /\ fault # "ApiException"
    /\ Cardinality({i \in 1..Len(all_issues) : all_issues[i].severity = "error"})
         = Cardinality({kind \in Kinds : FailedAt(kind) # {}})
    /\ FailedAt("nodes") # {} => ErrorsTitled(all_issues, TitleFailedNodes) = 1
    /\ FailedAt("deployments") # {}
         => ErrorsTitled(all_issues, TitleFailedDeployments) = 1
    /\ FailedAt("pvcs") # {} => ErrorsTitled(all_issues, TitleFailedPVCs) = 1
    /\ FailedAt("events") # {} => ErrorsTitled(all_issues, TitleFailedEvents) = 1

\* C4: when the claim listing fails, the scan goes on: once past the event
\* classifier the five list calls were made in the order nodes, pods,
\* deployments, claims, events, and the aggregated list is the concatenation
\* of the five classifiers' issues in that order, the claims' part being one
\* error issue.
C4_PvcFailureIsolated ==
    (FailedAt("pvcs") # {} /\ pc # "events")
      => /\ [i \in 1..Len(SelectSeq(trace, LAMBDA e : e.ev = "list")) |->
                SelectSeq(trace, LAMBDA e : e.ev = "list")[i].kind]
              = <<"nodes", "pods", "deployments", "pvcs", "events">>
         /\ all_issues
              = check_nodes(List("nodes", args.namespace))
                  \o analyze_pods(List("pods", args.namespace)).value
                  \o check_deployments(List("deployments", args.namespace))
                  \o ListFailure(TitleFailedPVCs)
                  \o collect_events(List("events", args.namespace), since_minutes, now)
         /\ ErrorsTitled(all_issues, TitleFailedPVCs) = 1
         /\ fault # "ApiException"

\* C4's case: the claim listing failed, the other four answered with objects
\* that raise issues, and the scan returned.
C4_Witness ==
    /\ FailedAt("pvcs") # {}
    /\ \A kind \in Kinds \ {"pvcs"} : ListedAt(kind) # {} /\ FailedAt(kind) = {}
    /\ printed # None
    /\ Len(all_issues) > 6

-----------------------------------------------------------------------------
(* Properties of the report (SpecReport) *)

\* The entries of `issues` with the given severity and title, in order.
WithKey(issues, severity, title) ==
    SelectSeq(issues, LAMBDA x : x.severity = severity /\ x.title = title)

\* C5: for a non-empty issue list the rendered order is a permutation of the
\* input in which every error precedes every warning and every warning every
\* info, entries of equal severity are in ascending title order, and entries
\* equal in severity and title keep their input order.
C5_ReportOrder ==
    (printed # None /\ all_issues # <<>>)
      => LET e == printed.entries
         IN  /\ ~printed.healthy
             /\ Len(e) = Len(all_issues)
             /\ \A x \in IssueUniverse :
                   Cardinality({i \in 1..Len(e) : e[i] = x})
                     = Cardinality({i \in 1..Len(all_issues) : all_issues[i] = x})
             /\ \A i, j \in 1..Len(e) :
                   /\ (e[i].severity = "error" /\ e[j].severity \in {"warning", "info"})
                         => i < j
                   /\ (e[i].severity = "warning" /\ e[j].severity = "info") => i < j
                   /\ (i < j /\ e[i].severity = e[j].severity)
                         => ~StrLess(e[j].title, e[i].title)
             /\ \A x \in IssueUniverse :
                   WithKey(e, x.severity, x.title)
                     = WithKey(all_issues, x.severity, x.title)

\* C5's case: three issues were rendered in another order than they came in,
\* two of them equal in severity and title.
C5_Witness ==
    /\ printed # None
    /\ Len(all_issues) = 3
    /\ printed.entries # all_issues
    /\ \E i, j \in 1..3 :
          /\ i < j
          /\ all_issues[i].severity = all_issues[j].severity
          /\ all_issues[i].title = all_issues[j].title
          /\ all_issues[i].detail # all_issues[j].detail

-----------------------------------------------------------------------------
(* Properties of the local manifest check (SpecManifest) *)

\* validate_manifest took the local branch.
LocalCheckRan == At("local_check") # {}

\* A document that is a mapping with a `kind` field and with `metadata.name`.
HasKind(d) == d.t = "dict" /\ "kind" \in DOMAIN d.fields
HasMetadataName(d) ==
    /\ d.t = "dict"
    /\ "metadata" \in DOMAIN d.fields
    /\ d.fields.metadata.t = "dict"
    /\ "name" \in DOMAIN d.fields.metadata.fields

\* The problems the check is to list: one per missing field of a mapping,
\* one for a document that is no mapping.
ProblemsDue(d) ==
    IF d.t # "dict" THEN 1
    ELSE (IF HasKind(d) THEN 0 ELSE 1) + (IF HasMetadataName(d) THEN 0 ELSE 1)

RECURSIVE TotalProblemsDue(_)
TotalProblemsDue(docs) ==
    IF docs = <<>> THEN 0
    ELSE ProblemsDue(Head(docs)) + TotalProblemsDue(Tail(docs))

\* C6: for a parsed sequence of documents the local check succeeds if and
\* only if every document is a mapping with `kind` and `metadata.name`, and on
\* failure it lists one problem per missing field per document.
C6_LocalCheckIffWellFormed ==
    (LocalCheckRan /\ file.parsed /\ fault = "")
      => /\ (ok.ok = "ok") <=>
               \A i \in 1..Len(file.docs) :
                   HasKind(file.docs[i]) /\ HasMetadataName(file.docs[i])
         /\ ok.ok = "failed" => Len(out) = TotalProblemsDue(file.docs)

\* C7: the local validation path returns a verdict and never raises; an
\* unparseable file, a document that is no mapping and a document whose
\* `metadata` is present but no mapping each give a failed verdict with text,
\* and the whole-file parse failure has a message of its own.
C7_LocalCheckNeverRaises ==
    LocalCheckRan
      => /\ fault = ""
         /\ ok.ok \in {"ok", "failed"}
         /\ out # <<>>
         /\ (\/ ~file.parsed
             \/ \E i \in 1..Len(file.docs) :
                   \/ file.docs[i].t # "dict"
                   \/ /\ "metadata" \in DOMAIN file.docs[i].fields
                      /\ file.docs[i].fields.metadata.t # "dict")
               => ok.ok = "failed"
         /\ (out = <<[text |-> "YAML parse error: "]>>) <=> ~file.parsed

-----------------------------------------------------------------------------
(* Properties of the pod classifier (SpecPods) *)

\* Whether `title` starts with `prefix`.
StartsWith(title, prefix) ==
    /\ Len(title) >= Len(prefix)
    /\ SubSeq(title, 1, Len(prefix)) = prefix

\* The number of issues whose title starts with one of `prefixes`.
IssuesTitled(prefixes) ==
    Cardinality({k \in 1..Len(all_issues) :
                    \E pre \in prefixes : StartsWith(all_issues[k].title, pre)})

\* The container statuses of the listed pods, as (pod, container) positions.
ContainersOf(pods) ==
    UNION {{<<i, j>> : j \in 1..Len(pods[i].container_statuses)} :
             i \in 1..Len(pods)}

\* C9: analyze_pods emits one `Pod Pending` warning per Pending pod and, per
\* container status and independently, one warning for a waiting reason of the
\* rule table, one for a last termination by OOMKilled or signal 9, one for
\* restart_count > 5; nothing else, and nothing but warnings.
C9_PodRules ==
    (pc = "deployments")
      => LET pods == cluster.pods.items
             cs(c) == pods[c[1]].container_statuses[c[2]]
             waiting == {c \in ContainersOf(pods) :
                           /\ cs(c).waiting # None
                           /\ cs(c).waiting.reason \in
                                {"CrashLoopBackOff", "Error", "ImagePullBackOff",
                                 "ErrImagePull", "RegistryUnavailable",
                                 "CreateContainerConfigError"}}
             killed == {c \in ContainersOf(pods) :
                           /\ cs(c).terminated # None
                           /\ \/ cs(c).terminated.reason = "OOMKilled"
                              \/ cs(c).terminated.signal = 9}
             restarting == {c \in ContainersOf(pods) : cs(c).restart_count > 5}
             pending == {i \in 1..Len(pods) : pods[i].phase = "Pending"}
         IN  /\ IssuesTitled({TitlePodPending}) = Cardinality(pending)
             /\ IssuesTitled({TitleCrashLoop, TitleImagePull, TitleConfigError})
                  = Cardinality(waiting)
             /\ IssuesTitled({TitleOOMKilled}) = Cardinality(killed)
             /\ IssuesTitled({TitleHighRestart}) = Cardinality(restarting)
             /\ Len(all_issues) = Cardinality(pending) + Cardinality(waiting)
                                    + Cardinality(killed) + Cardinality(restarting)
             /\ \A k \in 1..Len(all_issues) : all_issues[k].severity = "warning"

\* C9's case: a Pending pod whose container waits in CrashLoopBackOff with
\* seven restarts was classified, giving the Pending warning and two more.
C9_Witness ==
    /\ pc = "deployments"
    /\ cluster.pods.items = << [namespace |-> NsProd, name |-> NameA,
                                phase |-> "Pending", message |-> "",
                                container_statuses |-> <<ContainerCrashing(NameA)>>] >>
    /\ Len(all_issues) = 3

-----------------------------------------------------------------------------
(* Properties of the event classifier (SpecEvents) *)

\* The first present of last-seen time, event time, first-seen time.
FirstPresent(e) ==
    LET stamps == <<e.last_timestamp, e.event_time, e.first_timestamp>>
        present == {i \in 1..3 : stamps[i] # None}
    IN  IF present = {} THEN None
        ELSE stamps[CHOOSE i \in present : \A j \in present : i <= j]

\* An event that is to become an issue: a Warning whose effective timestamp
\* is a time not before now minus the window.
Qualifies(e) ==
    /\ e.type = "Warning"
    /\ FirstPresent(e) # None
    /\ "epoch" \in DOMAIN FirstPresent(e)
    /\ FirstPresent(e).epoch >= now - since_minutes * 60

\* C10: collect_events emits one issue, a warning, per event that is of type
\* Warning and whose effective timestamp is not older than now minus the
\* window, in the order of the events, and none for any other event.
C10_EventFilter ==
    (pc = "print")
      => LET events == cluster.events.items
             kept == SelectSeq(events, Qualifies)
         IN  /\ Len(all_issues) = Len(kept)
             /\ \A k \in 1..Len(all_issues) :
                   /\ all_issues[k].severity = "warning"
                   /\ all_issues[k].title
                        = TitleEvent \o kept[k].involved_kind \o Space
                            \o kept[k].involved_name \o Dash \o kept[k].reason

\* C10's case: under a 60-minute window a Warning 30 minutes old was kept,
\* one 90 minutes old and a recent Normal event were dropped.
C10_Witness ==
    /\ pc = "print"
    /\ since_minutes = 60
    /\ Len(cluster.events.items) = 3
    /\ cluster.events.items[1].type = "Warning"
    /\ cluster.events.items[1].last_timestamp = [epoch |-> 5400]
    /\ cluster.events.items[2] = EventAt("Warning", [epoch |-> 1800], None, None)
    /\ cluster.events.items[3] = EventAt("Normal", [epoch |-> 5400], None, None)
    /\ Len(all_issues) = 1

=============================================================================
